---------------------------- MODULE Spec2Model ----------------------------
(***************************************************************************)
(* A model of neosr's batch-mixing augmentations                           *)
(* (neosr/data/augmentations.py) and of its MS-SSIM loss                   *)
(* (neosr/losses/ssim_loss.py).                                            *)
(*                                                                         *)
(* A tensor is a record [shape |-> <<N, C, H, W>>, px |-> f] with           *)
(* f[n][c][h][w] the pixel at the 0-based index (n, c, h, w).              *)
(* Pixel values are fixed-point integers: PixOne stands for 1.0.           *)
(* Random draws (rng.uniform, rng.integers, torch.randperm,                *)
(* random.choices, random.choice) are existential choices over the values  *)
(* the generator can return, or over the named samples of a continuous     *)
(* range.                                                                  *)
(***************************************************************************)
EXTENDS Integers, Sequences, FiniteSets, TLC

VARIABLES
    entry,        \* the function the caller invoked
    pc,           \* position inside that function
    img_gt,       \* the local img_gt (a tensor)
    img_lq,       \* the local img_lq (a tensor)
    gt0,          \* the caller's img_gt as passed in
    lq0,          \* the caller's img_lq as passed in
    scale,        \* apply_augment's scale argument
    augs,         \* apply_augment's augs argument (tuple of names)
    prob,         \* apply_augment's prob argument (tuple of weights)
    multi_prob,   \* apply_augment's multi_prob, in units of 1/2
    multi,        \* "unset", or the branch rng.random() < multi_prob chose
    num_augs,     \* local num_augs of the multi-augmentation branch
    weighted,     \* local list weighted: the pool of <<name, weight>> entries
    aug,          \* local aug: a list of names (multi) or <<name>> (single)
    step,         \* index of the next "if ... in aug" statement (multi branch)
    scope,        \* resizemix's scope argument of a direct call
    x_axis_only,  \* resizemix's x_axis_only argument of a direct call
    y_axis_only,  \* resizemix's y_axis_only argument of a direct call
    applied,      \* the transform calls made so far, in order
    last,         \* the random values of the latest transform call
    draws,        \* number of random draws consumed so far
    raised,       \* "none", or the exception that ended the call
    loss          \* state of the MS-SSIM loss module (see below)

vars == <<entry, pc, img_gt, img_lq, gt0, lq0, scale, augs, prob, multi_prob,
          multi, num_augs, weighted, aug, step, scope, x_axis_only,
          y_axis_only, applied, last, draws, raised, loss>>

-----------------------------------------------------------------------------
(* Bounds of the model *)

\* largest batch size N of an input tensor
MaxBatch == 2
\* largest height and width of a tensor passed to a transform directly
MaxDim == 3
\* largest scale argument of apply_augment (beside RoundTripScale)
MaxScale == 2
\* largest number of entries of an augmentation policy
MaxAugs == 3

-----------------------------------------------------------------------------
(* Tensors *)

\* pixel value standing for 1.0 (upper limit of torch.clamp(..., 0, 1))
PixOne == 10000000

Idx(shape) ==
    (0 .. shape[1] - 1) \X (0 .. shape[2] - 1)
        \X (0 .. shape[3] - 1) \X (0 .. shape[4] - 1)

\* row-major position of an index tuple
Lin(shape, i) ==
    ((i[1] * shape[2] + i[2]) * shape[3] + i[3]) * shape[4] + i[4]

\* the tensor of the given shape whose pixel at (n, c, h, w) is F(n, c, h, w)
Build(shape, F(_, _, _, _)) ==
    [shape |-> shape,
     px |-> [n \in 0 .. shape[1] - 1 |-> [c \in 0 .. shape[2] - 1 |->
                [h \in 0 .. shape[3] - 1 |-> [w \in 0 .. shape[4] - 1 |->
                    F(n, c, h, w)]]]]]

\* the pixel of t at the index tuple i
At(t, i) == t.px[i[1]][i[2]][i[3]][i[4]]

\* an input batch whose pixels are pairwise distinct multiples of 0.0001
Fill(shape, base) ==
    Build(shape, LAMBDA n, c, h, w :
                    base + 100 * (1 + Lin(shape, <<n, c, h, w>>)))

Min(a, b) == IF a < b THEN a ELSE b
Max(a, b) == IF a > b THEN a ELSE b

\* np.clip(v, lo, hi)
Clip(v, lo, hi) == Max(lo, Min(v, hi))

\* torch.clamp(t, 0, 1)
Clamp(t) ==
    Build(t.shape, LAMBDA n, c, h, w : Clip(t.px[n][c][h][w], 0, PixOne))

\* the permutations torch.randperm(n) can return, as functions on 0..n-1
Perms(n) ==
    {p \in [0 .. n - 1 -> 0 .. n - 1] :
        \A a, b \in 0 .. n - 1 : a # b => p[a] # p[b]}

\* t[rand_index]: advanced indexing of the batch axis (a copy)
Permute(t, p) == Build(t.shape, LAMBDA n, c, h, w : t.px[p[n]][c][h][w])

\* whether row h and column w lie in the slice [:, :, a1:a2, b1:b2]
InSlice(h, w, a1, a2, b1, b2) == a1 <= h /\ h < a2 /\ b1 <= w /\ w < b2

\* shape of t[:, :, a1:a2, b1:b2] (Python clamps slice bounds to the axis
\* length)
SliceShape(t, a1, a2, b1, b2) ==
    <<t.shape[1], t.shape[2],
      Max(0, Min(a2, t.shape[3]) - Min(a1, t.shape[3])),
      Max(0, Min(b2, t.shape[4]) - Min(b1, t.shape[4]))>>


-----------------------------------------------------------------------------
(* IEEE-754 double arithmetic of "1 / scale" and of the output size        *)
(* F.interpolate derives from a scale factor: floor(size * scale_factor),  *)
(* the product rounded to a double before the floor.  Big integers are     *)
(* sequences of binary digits, most significant first.                     *)

\* significant binary digits of a double
Precision == 53

\* number of binary digits of n (0 for 0), for n < 2^30
BitLen(n) == CHOOSE k \in 0 .. 30 : (k = 0 \/ 2 ^ (k - 1) <= n) /\ n < 2 ^ k

\* binary digits of n, most significant first (<<>> for 0)
BitsOf(n) == [j \in 1 .. BitLen(n) |-> (n \div 2 ^ (BitLen(n) - j)) % 2]

\* the integer a digit sequence stands for
ToInt(bits) ==
    LET V[j \in 0 .. Len(bits)] == IF j = 0 THEN 0 ELSE 2 * V[j - 1] + bits[j]
    IN  V[Len(bits)]

\* long division of 2^k * rem by s: the k digits of the quotient appended to
\* bits, and the final remainder
LongDiv(rem, s, k, bits) ==
    LET R[j \in 0 .. k] == IF j = 0 THEN rem ELSE (2 * R[j - 1]) % s
    IN  [bits |-> bits \o [j \in 1 .. k |-> (2 * R[j - 1]) \div s],
         rem |-> R[k]]

\* bits + 1: the last 0 becomes 1 and the digits after it 0
IncAt(bits) ==
    LET zeros == {j \in 1 .. Len(bits) : bits[j] = 0}
        z == CHOOSE j \in zeros : \A i \in zeros : i <= j
    IN  IF zeros = {} THEN <<1>> \o [j \in 1 .. Len(bits) |-> 0]
        ELSE [j \in 1 .. Len(bits) |->
                IF j < z THEN bits[j] ELSE IF j = z THEN 1 ELSE 0]

\* bits * m for a small integer m, digit by digit from the least
\* significant: C[j] is the carry out of the j lowest digits
MulAt(bits, m) ==
    LET n == Len(bits)
        C[j \in 0 .. n] ==
            IF j = 0 THEN 0 ELSE (bits[n - j + 1] * m + C[j - 1]) \div 2
    IN  BitsOf(C[n]) \o [i \in 1 .. n |-> (bits[i] * m + C[n - i]) % 2]

\* drop leading zeros
Normal(bits) ==
    LET ones == {j \in 1 .. Len(bits) : bits[j] = 1}
    IN  IF ones = {} THEN <<>>
        ELSE SubSeq(bits, CHOOSE j \in ones : \A i \in ones : j <= i, Len(bits))

\* round-to-nearest-even of a digit sequence (sticky: a non-zero part below
\* its last digit) to Precision digits: the kept digits and how many were dropped
RoundNearestEven(bits, sticky) ==
    LET n == Len(bits)
    IN  IF n <= Precision THEN [m |-> bits, dropped |-> 0]
        ELSE LET keep == SubSeq(bits, 1, Precision)
                 guard == bits[Precision + 1]
                 below == sticky \/ \E j \in Precision + 2 .. n : bits[j] = 1
                 up == guard = 1 /\ (below \/ keep[Precision] = 1)
             IN  [m |-> IF up THEN IncAt(keep) ELSE keep,
                  dropped |-> n - Precision]

\* the double 1 / s for an integer s >= 1: mantissa m and exponent e,
\* the value being m * 2^(-e)
FloatRecip(s) ==
    LET k == Precision + 2 + BitLen(s)
        q == LongDiv(1 % s, s, k, <<1 \div s>>)
        r == RoundNearestEven(Normal(q.bits), q.rem # 0)
    IN  [m |-> r.m, e |-> k - r.dropped]

\* floor(size * x) computed in doubles, x a double [m, e] below 1
FloorMulFloat(size, x) ==
    LET p == Normal(MulAt(x.m, size))
        r == RoundNearestEven(p, FALSE)
        cut == x.e - r.dropped       \* digits of r.m below the binary point
    IN  IF cut <= 0 THEN ToInt(r.m)
        ELSE IF cut >= Len(r.m) THEN 0
        ELSE ToInt(SubSeq(r.m, 1, Len(r.m) - cut))

\* output size of F.interpolate(..., scale_factor=scale) for an integer scale
UpSize(size, s) == size * s

\* output size of F.interpolate(..., scale_factor=1 / scale)
DownSize(size, s) == FloorMulFloat(size, FloatRecip(s))

\* F.interpolate(t, (oh, ow)): the output has the requested size; a size
\* below 1 is rejected.  The resampling kernel (bilinear or bicubic,
\* antialiased) is stood for by nearest-neighbour sampling: no property
\* checked here reads a resampled pixel's value.
Interpolate(t, oh, ow) ==
    IF oh < 1 \/ ow < 1 \/ t.shape[3] < 1 \/ t.shape[4] < 1
    THEN [raised |-> "RuntimeError", t |-> t]
    ELSE LET sh == <<t.shape[1], t.shape[2], oh, ow>>
         IN  [raised |-> "none",
              t |-> Build(sh, LAMBDA n, c, h, w :
                                t.px[n][c][(h * t.shape[3]) \div oh]
                                          [(w * t.shape[4]) \div ow])]

-----------------------------------------------------------------------------
(* Random draws.  A ratio drawn by rng.uniform is a number of hundredths    *)
(* (thousandths for resizemix's tao); each set names samples of the range.  *)

\* rng.integers(n): 0 .. n-1, thinned to both ends and the middle when large
Centres(n) == IF n <= MaxDim THEN 0 .. n - 1 ELSE {0, n \div 2, n - 1}

\* rng.uniform(alpha_min, alpha_max) of mixup, defaults 0.4 and 0.6
MixupLam == {40, 50}

\* rng.uniform(0, alpha) of cutmix, alpha = 0.9: values whose 1 - lam is a
\* square of tenths, so that np.sqrt(1.0 - lam) is exact
CutmixLam == {0, 51, 84}

\* rng.uniform(0.2, alpha) of cutblur, alpha = 0.7
CutblurLam == {20, 50, 69}

\* rng.uniform(scope[0], scope[1]) of resizemix
TaoDraws(sc) == {t \in {200, 500, 800, 1000, 1400} : sc[1] <= t /\ t < sc[2]}

\* resizemix's default scope (0.2, 0.9) and the scope [0.666, 1.5] that
\* apply_augment passes for the X and Y variants
DefaultScope == <<200, 900>>
AxisScope == <<666, 1500>>

IdPerm(n) == [a \in 0 .. n - 1 |-> a]

NoBox == [bbx1 |-> 0, bby1 |-> 0, bbx2 |-> 0, bby2 |-> 0]

\* the random values one call of transform fn consumes
Draws(fn, sc, shape) ==
    LET n == shape[1]
        cxs == Centres(shape[3])
        cys == Centres(shape[4])
    IN  CASE fn = "mixup" ->
               [lam : MixupLam, perm : Perms(n), cx : {0}, cy : {0}, tao : {0}]
          [] fn = "cutmix" ->
               [lam : CutmixLam, perm : Perms(n), cx : cxs, cy : cys, tao : {0}]
          [] fn = "resizemix" ->
               [lam : {0}, perm : Perms(n), cx : cxs, cy : cys, tao : TaoDraws(sc)]
          [] fn = "cutblur" ->
               [lam : CutblurLam, perm : {IdPerm(n)}, cx : cxs, cy : cys, tao : {0}]

-----------------------------------------------------------------------------
(* The transforms.  Each takes the tensors and the random values r of the   *)
(* call and yields [raised, gt, lq, n, box]: the exception raised ("none"   *)
(* when it returns), the tensors afterwards, the number of random draws     *)
(* consumed, and the sampled box.                                           *)

Result(exc, gt, lq, n, box) ==
    [raised |-> exc, gt |-> gt, lq |-> lq, n |-> n, box |-> box]

\* lam * a + (1 - lam) * b, lam in hundredths
Blend(lam, a, b) ==
    Build(a.shape, LAMBDA n, c, h, w :
        (lam * a.px[n][c][h][w] + (100 - lam) * b.px[n][c][h][w]) \div 100)

\* t[:, :, a1:a2, b1:b2] = src[:, :, a1:a2, b1:b2] for src of t's shape
Paste(t, src, a1, a2, b1, b2) ==
    Build(t.shape, LAMBDA n, c, h, w :
        IF InSlice(h, w, a1, a2, b1, b2)
        THEN src.px[n][c][h][w] ELSE t.px[n][c][h][w])

\* whether patch can be assigned to t[:, :, a1:a2, b1:b2]: each axis of the
\* patch has the slice's length or length 1 (broadcast)
Fits(t, patch, a1, a2, b1, b2) ==
    LET s == SliceShape(t, a1, a2, b1, b2)
    IN  \A d \in 1 .. 4 :
            patch.shape[d] = s[d] \/ (d > 2 /\ patch.shape[d] = 1)

\* t[:, :, a1:a2, b1:b2] = patch
PastePatch(t, patch, a1, a2, b1, b2) ==
    Build(t.shape, LAMBDA n, c, h, w :
        IF InSlice(h, w, a1, a2, b1, b2)
        THEN patch.px[n][c][IF patch.shape[3] = 1 THEN 0 ELSE h - a1]
                           [IF patch.shape[4] = 1 THEN 0 ELSE w - b1]
        ELSE t.px[n][c][h][w])

mixup(gt, lq, r) ==
    IF gt.shape # lq.shape THEN Result("ValueError", gt, lq, 0, NoBox)
    ELSE LET img_ == Permute(gt, r.perm)
         IN  Result("none", Blend(r.lam, gt, img_), Blend(r.lam, lq, img_),
                    2, NoBox)

\* np.sqrt(1.0 - lam) in tenths
CutRat(lam) == CHOOSE q \in 0 .. 10 : q * q = 100 - lam

\* rand_bbox of cutmix: W is size[2] and H is size[3]
cutmix_rand_bbox(size, lam, cx, cy) ==
    LET W == size[3]
        H == size[4]
        cut_w == (W * CutRat(lam)) \div 10
        cut_h == (H * CutRat(lam)) \div 10
    IN  [bbx1 |-> Clip(cx - cut_w \div 2, 0, W),
         bby1 |-> Clip(cy - cut_h \div 2, 0, H),
         bbx2 |-> Clip(cx + cut_w \div 2, 0, W),
         bby2 |-> Clip(cy + cut_h \div 2, 0, H)]

\* cutmix pasting into [:, :, bby1:bby2, bbx1:bbx2], the two slices swapped
\* (mutant)
cutmix_AxesSwapped(gt, lq, r) ==
    IF gt.shape # lq.shape THEN Result("ValueError", gt, lq, 0, NoBox)
    ELSE LET img_gt_ == Permute(gt, r.perm)
             img_lq_ == Permute(lq, r.perm)
             b == cutmix_rand_bbox(gt.shape, r.lam, r.cx, r.cy)
         IN  Result("none",
                    Paste(gt, img_gt_, b.bby1, b.bby2, b.bbx1, b.bbx2),
                    Paste(lq, img_lq_, b.bby1, b.bby2, b.bbx1, b.bbx2),
                    4, b)

cutmix(gt, lq, r) ==
    IF gt.shape # lq.shape THEN Result("ValueError", gt, lq, 0, NoBox)
    ELSE LET img_gt_ == Permute(gt, r.perm)
             img_lq_ == Permute(lq, r.perm)
             b == cutmix_rand_bbox(gt.shape, r.lam, r.cx, r.cy)
         IN  Result("none",
                    Paste(gt, img_gt_, b.bbx1, b.bbx2, b.bby1, b.bby2),
                    Paste(lq, img_lq_, b.bbx1, b.bbx2, b.bby1, b.bby2),
                    4, b)

\* rand_bbox_tao of resizemix: W is size[2] and H is size[3], tao in thousandths
rand_bbox_tao(size, tao, x_only, y_only, cx, cy) ==
    LET W == size[3]
        H == size[4]
        cut_w == (W * tao) \div 1000
        cut_h == (H * tao) \div 1000
    IN  [bbx1 |-> IF y_only THEN 0 ELSE Clip(cx - cut_w \div 2, 0, W),
         bby1 |-> IF x_only THEN 0 ELSE Clip(cy - cut_h \div 2, 0, H),
         bbx2 |-> IF y_only THEN W ELSE Clip(cx + cut_w \div 2, 0, W),
         bby2 |-> IF x_only THEN H ELSE Clip(cy + cut_h \div 2, 0, H)]

\* resizemix without the check of the two axis flags (mutant)
resizemix_NoFlagCheck(gt, lq, sc, x_only, y_only, r) ==
    IF gt.shape # lq.shape THEN Result("ValueError", gt, lq, 0, NoBox)
    ELSE LET b == rand_bbox_tao(gt.shape, r.tao, FALSE, FALSE, r.cx, r.cy)
             oh == b.bby2 - b.bby1
             ow == b.bbx2 - b.bbx1
             g == Interpolate(Permute(gt, r.perm), oh, ow)
             l == Interpolate(Permute(lq, r.perm), oh, ow)
         IN  IF g.raised # "none" THEN Result(g.raised, gt, lq, 4, b)
             ELSE IF ~Fits(gt, g.t, b.bby1, b.bby2, b.bbx1, b.bbx2)
             THEN Result("RuntimeError", gt, lq, 4, b)
             ELSE Result("none",
                         PastePatch(gt, Clamp(g.t), b.bby1, b.bby2, b.bbx1, b.bbx2),
                         PastePatch(lq, Clamp(l.t), b.bby1, b.bby2, b.bbx1, b.bbx2),
                         4, b)

resizemix(gt, lq, sc, x_only, y_only, r) ==
    IF gt.shape # lq.shape THEN Result("ValueError", gt, lq, 0, NoBox)
    ELSE IF x_only /\ y_only THEN Result("ValueError", gt, lq, 0, NoBox)
    ELSE LET \* the call passes neither axis flag on
             b == rand_bbox_tao(gt.shape, r.tao, FALSE, FALSE, r.cx, r.cy)
             oh == b.bby2 - b.bby1
             ow == b.bbx2 - b.bbx1
             g == Interpolate(Permute(gt, r.perm), oh, ow)
             l == Interpolate(Permute(lq, r.perm), oh, ow)
         IN  IF g.raised # "none" THEN Result(g.raised, gt, lq, 4, b)
             ELSE IF ~Fits(gt, g.t, b.bby1, b.bby2, b.bbx1, b.bbx2)
             THEN Result("RuntimeError", gt, lq, 4, b)
             ELSE Result("none",
                         PastePatch(gt, Clamp(g.t), b.bby1, b.bby2, b.bbx1, b.bbx2),
                         PastePatch(lq, Clamp(l.t), b.bby1, b.bby2, b.bbx1, b.bbx2),
                         4, b)

\* rand_bbox of cutblur: W is size[2] and H is size[3], lam in hundredths
cutblur_rand_bbox(size, lam, cx, cy) ==
    LET W == size[3]
        H == size[4]
        cut_w == (W * lam) \div 100
        cut_h == (H * lam) \div 100
    IN  [bbx1 |-> Clip(cx - cut_w \div 2, 0, W),
         bby1 |-> Clip(cy - cut_h \div 2, 0, H),
         bbx2 |-> Clip(cx + cut_w \div 2, 0, W),
         bby2 |-> Clip(cy + cut_h \div 2, 0, H)]

\* cutblur with the assignment the other way round (mutant)
cutblur_IntoGT(gt, lq, r) ==
    IF gt.shape # lq.shape THEN Result("ValueError", gt, lq, 0, NoBox)
    ELSE LET b == cutblur_rand_bbox(gt.shape, r.lam, r.cx, r.cy)
         IN  Result("none", Paste(gt, lq, b.bbx1, b.bbx2, b.bby1, b.bby2),
                    lq, 3, b)

cutblur(gt, lq, r) ==
    IF gt.shape # lq.shape THEN Result("ValueError", gt, lq, 0, NoBox)
    ELSE LET b == cutblur_rand_bbox(gt.shape, r.lam, r.cx, r.cy)
         IN  Result("none", gt,
                    Paste(lq, gt, b.bbx1, b.bbx2, b.bby1, b.bby2), 3, b)

\* a call of transform fn
Run(fn, gt, lq, sc, x_only, y_only, r) ==
    CASE fn = "mixup" -> mixup(gt, lq, r)
      [] fn = "cutmix" -> cutmix(gt, lq, r)
      [] fn = "resizemix" -> resizemix(gt, lq, sc, x_only, y_only, r)
      [] fn = "cutblur" -> cutblur(gt, lq, r)

-----------------------------------------------------------------------------
(* apply_augment *)

\* the default augs argument
DefaultAugs ==
    <<"none", "mixup", "cutmix", "resizemix", "resizemixX", "resizemixY",
      "cutblur">>

\* the characters of each supported name
Spelling ==
    [none |-> <<"n", "o", "n", "e">>,
     mixup |-> <<"m", "i", "x", "u", "p">>,
     cutmix |-> <<"c", "u", "t", "m", "i", "x">>,
     resizemix |-> <<"r", "e", "s", "i", "z", "e", "m", "i", "x">>,
     resizemixX |-> <<"r", "e", "s", "i", "z", "e", "m", "i", "x", "X">>,
     resizemixY |-> <<"r", "e", "s", "i", "z", "e", "m", "i", "x", "Y">>,
     cutblur |-> <<"c", "u", "t", "b", "l", "u", "r">>]

\* Python's "a in b" for two strings: a is a substring of b
InStr(a, b) ==
    LET x == Spelling[a]
        y == Spelling[b]
    IN  \E k \in 0 .. Len(y) - Len(x) : SubSeq(y, k + 1, k + Len(x)) = x

\* Python's "a in l" for a list l: some element equals a
InList(a, l) == \E k \in 1 .. Len(l) : l[k] = a

NoCall == [fn |-> "none", scope |-> <<0, 0>>, x |-> FALSE, y |-> FALSE]
CallOf(fn, sc, x, y) == [fn |-> fn, scope |-> sc, x |-> x, y |-> y]

\* the transform call guarded by each test of the if / elif chains, in order
Chain ==
    <<[name |-> "cutmix", call |-> CallOf("cutmix", DefaultScope, FALSE, FALSE)],
      [name |-> "mixup", call |-> CallOf("mixup", DefaultScope, FALSE, FALSE)],
      [name |-> "resizemix",
       call |-> CallOf("resizemix", DefaultScope, FALSE, FALSE)],
      [name |-> "resizemixX",
       call |-> CallOf("resizemix", AxisScope, TRUE, FALSE)],
      [name |-> "resizemixY",
       call |-> CallOf("resizemix", AxisScope, FALSE, TRUE)],
      [name |-> "cutblur", call |-> CallOf("cutblur", DefaultScope, FALSE, FALSE)]>>

\* the single-augmentation branch's if / elif / else on the string a:
\* the call of the first test that a passes, NoCall for the final else
RECURSIVE ElifFrom(_, _)
ElifFrom(a, k) ==
    IF k > Len(Chain) THEN NoCall
    ELSE IF InStr(Chain[k].name, a) THEN Chain[k].call
    ELSE ElifFrom(a, k + 1)

SingleDispatch(a) == ElifFrom(a, 1)

\* a remove that leaves the list as it is (mutant)
Remove_Keeps(l, x) == l

\* list.remove(x): l without its first element equal to x
RECURSIVE Remove(_, _)
Remove(l, x) ==
    IF l = <<>> THEN <<>>
    ELSE IF Head(l) = x THEN Tail(l)
    ELSE <<Head(l)>> \o Remove(Tail(l), x)

\* list(zip(augs, prob, strict=False))
Zip(a, p) == [k \in 1 .. Min(Len(a), Len(p)) |-> <<a[k], p[k]>>]

\* the indices random.choices(range(len(augs)), weights=prob) can return
WeightedChoices(p) == {k \in 1 .. Len(p) : p[k] > 0}

\* the values of num_augs
NumAugs(n) == IF n > 2 THEN 2 .. n - 1 ELSE {n}

NoLast == [lam |-> 0, tao |-> 0, perm |-> IdPerm(0), box |-> NoBox]

\* one call of a transform from the current state, control going to next
\* when it returns
Call(c, next) ==
    \E r \in Draws(c.fn, c.scope, img_gt.shape) :
        \E res \in {Run(c.fn, img_gt, img_lq, c.scope, c.x, c.y, r)} :
            /\ img_gt' = res.gt
            /\ img_lq' = res.lq
            /\ draws' = draws + res.n
            /\ raised' = res.raised
            /\ applied' = Append(applied, c)
            /\ last' = IF entry = "apply_augment" \/ res.n = 0 THEN NoLast
                       ELSE [lam |-> r.lam, tao |-> r.tao, perm |-> r.perm,
                             box |-> res.box]
            /\ pc' = IF res.raised = "none" THEN next ELSE "raised"

\* AugCheck without the batch-size check (mutant)
AugCheck_NoBatchCheck ==
    /\ entry = "apply_augment" /\ pc = "start"
    /\ IF Len(augs) # Len(prob)
       THEN raised' = "ValueError" /\ pc' = "raised"
       ELSE raised' = raised /\ pc' = "match"
    /\ UNCHANGED <<loss, entry, img_gt, img_lq, gt0, lq0, scale, augs, prob,
                   multi_prob, multi, num_augs, weighted, aug, step, scope,
                   x_axis_only, y_axis_only, applied, last, draws>>

\* lines 258-263: the two argument checks
AugCheck ==
    /\ entry = "apply_augment" /\ pc = "start"
    /\ IF Len(augs) # Len(prob) \/ img_gt.shape[1] = 1
       THEN raised' = "ValueError" /\ pc' = "raised"
       ELSE raised' = raised /\ pc' = "match"
    /\ UNCHANGED <<loss, entry, img_gt, img_lq, gt0, lq0, scale, augs, prob,
                   multi_prob, multi, num_augs, weighted, aug, step, scope,
                   x_axis_only, y_axis_only, applied, last, draws>>

\* lines 265-274: LQ is brought to GT's resolution
AugMatch ==
    /\ pc = "match"
    /\ IF scale > 1
       THEN LET up == Interpolate(img_lq, UpSize(img_lq.shape[3], scale),
                                  UpSize(img_lq.shape[4], scale))
            IN  /\ img_lq' = Clamp(up.t)
                /\ draws' = draws + 1           \* random.choice(modes)
       ELSE UNCHANGED <<img_lq, draws>>
    /\ pc' = "coin"
    /\ UNCHANGED <<loss, entry, img_gt, gt0, lq0, scale, augs, prob, multi_prob,
                   multi, num_augs, weighted, aug, step, scope, x_axis_only,
                   y_axis_only, applied, last, raised>>

\* lines 276-280: rng.random() < multi_prob, u the draw in halves
AugCoin ==
    /\ pc = "coin"
    /\ \E u \in {0, 1} :
         IF u < multi_prob
         THEN \E n \in NumAugs(Len(augs)) :
                /\ multi' = "multi"
                /\ num_augs' = n
                /\ weighted' = Zip(augs, prob)
                /\ draws' = draws + (IF Len(augs) > 2 THEN 2 ELSE 1)
                /\ pc' = IF n = 0 THEN "apply" ELSE "draw"
         ELSE /\ multi' = "single"
              /\ draws' = draws + 1
              /\ pc' = "single"
              /\ UNCHANGED <<num_augs, weighted>>
    /\ UNCHANGED <<loss, entry, img_gt, img_lq, gt0, lq0, scale, augs, prob,
                   multi_prob, aug, step, scope, x_axis_only, y_axis_only,
                   applied, last, raised>>

\* lines 281-284: one iteration of the selection loop
AugDraw ==
    /\ pc = "draw"
    /\ \E k \in 1 .. Len(weighted) :          \* random.choices(weighted, k=1)
         LET choice == weighted[k]
         IN  /\ aug' = Append(aug, choice[1])
             /\ weighted' = Remove(weighted, choice)
             /\ pc' = IF Len(aug) + 1 = num_augs THEN "apply" ELSE "draw"
    /\ draws' = draws + 1
    /\ UNCHANGED <<loss, entry, img_gt, img_lq, gt0, lq0, scale, augs, prob,
                   multi_prob, multi, num_augs, step, scope, x_axis_only,
                   y_axis_only, applied, last, raised>>

\* lines 286-299: the next "if <name> in aug" statement of the multi branch
AugApplyMulti ==
    /\ pc = "apply"
    /\ step' = step + 1
    /\ LET next == IF step = Len(Chain) THEN "restore" ELSE "apply"
       IN  IF InList(Chain[step].name, aug)
           THEN Call(Chain[step].call, next)
           ELSE /\ pc' = next
                /\ UNCHANGED <<img_gt, img_lq, applied, last, draws, raised>>
    /\ UNCHANGED <<loss, entry, gt0, lq0, scale, augs, prob, multi_prob, multi,
                   num_augs, weighted, aug, scope, x_axis_only, y_axis_only>>

\* lines 301-317: the weighted draw and the if / elif chain on its name
AugSingle ==
    /\ pc = "single"
    /\ IF augs = <<>>
       THEN /\ raised' = "IndexError" /\ pc' = "raised"
            /\ UNCHANGED <<aug, img_gt, img_lq, applied, last, draws>>
       ELSE IF WeightedChoices(prob) = {}
       THEN /\ raised' = "ValueError" /\ pc' = "raised"
            /\ UNCHANGED <<aug, img_gt, img_lq, applied, last, draws>>
       ELSE \E idx \in WeightedChoices(prob) :
              /\ aug' = <<augs[idx]>>
              /\ LET c == SingleDispatch(augs[idx])
                 IN  IF c = NoCall
                     THEN /\ pc' = "restore"
                          /\ draws' = draws + 1
                          /\ UNCHANGED <<img_gt, img_lq, applied, last, raised>>
                     ELSE \E r \in Draws(c.fn, c.scope, img_gt.shape) :
                            \E res \in {Run(c.fn, img_gt, img_lq, c.scope,
                                              c.x, c.y, r)} :
                                /\ img_gt' = res.gt
                                /\ img_lq' = res.lq
                                /\ draws' = draws + 1 + res.n
                                /\ raised' = res.raised
                                /\ applied' = Append(applied, c)
                                /\ last' = NoLast
                                /\ pc' = IF res.raised = "none"
                                         THEN "restore" ELSE "raised"
    /\ UNCHANGED <<loss, entry, gt0, lq0, scale, augs, prob, multi_prob, multi,
                   num_augs, weighted, step, scope, x_axis_only, y_axis_only>>

\* lines 319-329: LQ is brought back and the pair is returned
AugRestore ==
    /\ pc = "restore"
    /\ IF scale > 1
       THEN LET down == Interpolate(img_lq, DownSize(img_lq.shape[3], scale),
                                    DownSize(img_lq.shape[4], scale))
            IN  /\ img_lq' = IF down.raised = "none" THEN Clamp(down.t)
                             ELSE img_lq
                /\ raised' = down.raised
                /\ pc' = IF down.raised = "none" THEN "done" ELSE "raised"
       ELSE /\ pc' = "done"
            /\ UNCHANGED <<img_lq, raised>>
    /\ UNCHANGED <<loss, entry, img_gt, gt0, lq0, scale, augs, prob, multi_prob,
                   multi, num_augs, weighted, aug, step, scope, x_axis_only,
                   y_axis_only, applied, last, draws>>

\* a transform called by the training loop directly
Direct ==
    /\ entry # "apply_augment" /\ pc = "call"
    /\ Call(CallOf(entry, scope, x_axis_only, y_axis_only), "done")
    /\ UNCHANGED <<loss, entry, gt0, lq0, scale, augs, prob, multi_prob, multi,
                   num_augs, weighted, aug, step, scope, x_axis_only,
                   y_axis_only>>

-----------------------------------------------------------------------------
(* Inputs *)

\* pixel offset of the LQ input, so that no LQ pixel equals a GT pixel
LqBase == PixOne \div 2

\* the loss module's state while the augmentations run
NoLoss == [pc |-> "idle"]

\* shapes (N, C, H, W) of the tensors passed to a transform directly
Shapes == (1 .. MaxBatch) \X {1, 2} \X (1 .. MaxDim) \X (1 .. MaxDim)

Locals ==
    /\ multi = "unset"
    /\ num_augs = 0
    /\ weighted = <<>>
    /\ aug = <<>>
    /\ step = 1
    /\ applied = <<>>
    /\ last = NoLast
    /\ draws = 0
    /\ raised = "none"
    /\ loss = NoLoss

\* a direct call of mixup, cutmix, resizemix or cutblur
InitCall ==
    /\ entry \in {"mixup", "cutmix", "resizemix", "cutblur"}
    /\ pc = "call"
    /\ \E g \in Shapes, l \in Shapes :
         /\ gt0 = Fill(g, 0)
         /\ lq0 = Fill(l, LqBase)
    /\ img_gt = gt0
    /\ img_lq = lq0
    /\ scope \in IF entry = "resizemix" THEN {DefaultScope, AxisScope}
                 ELSE {DefaultScope}
    /\ x_axis_only \in IF entry = "resizemix" THEN BOOLEAN ELSE {FALSE}
    /\ y_axis_only \in IF entry = "resizemix" THEN BOOLEAN ELSE {FALSE}
    /\ scale = 1
    /\ augs = <<>>
    /\ prob = <<>>
    /\ multi_prob = 0
    /\ Locals

NextCall == Direct

SpecCall == InitCall /\ [][NextCall]_vars

\* a scale whose reciprocal, as a double, times the upscaled size falls
\* below the original size
RoundTripScale == 7 * 7

\* n consecutive names of the default policy, from the i-th on
Window(i, n) == SubSeq(DefaultAugs, i, i + n - 1)

\* the policies (augs, prob) of at most m entries: windows of the default
\* policy with weights 1 and at most one weight 0
AugPolicies(m) ==
    {[augs |-> Window(i, n), prob |-> w] :
        <<i, n, w>> \in
            {t \in (1 .. Len(DefaultAugs)) \X (0 .. m)
                    \X UNION {[1 .. k -> {0, 1}] : k \in 0 .. m} :
                /\ t[1] + t[2] - 1 <= Len(DefaultAugs)
                /\ DOMAIN t[3] = 1 .. t[2]
                /\ Cardinality({k \in 1 .. t[2] : t[3][k] = 0}) <= 1
                /\ (t[2] = 0 => t[1] = 1)}}

\* a policy that names a transform twice, and one whose weights are one
\* short
OddPolicies ==
    {[augs |-> <<"mixup", "mixup">>, prob |-> <<1, 1>>],
     [augs |-> <<"mixup", "cutblur">>, prob |-> <<1>>]}

\* (scale, LQ shape, GT shape): GT is scale times LQ, or one row taller
AugInputs ==
    {[scale |-> s, lq |-> <<n, 1, d[1], d[2]>>,
      gt |-> <<n, 1, s * d[1] + e, s * d[2]>>] :
        <<n, s, d, e>> \in (1 .. MaxBatch) \X (1 .. MaxScale)
                            \X {<<1, 1>>, <<1, 2>>} \X {0, 1}}

\* a call of apply_augment: every input size with a policy of at most one
\* entry, every policy with a batch of two 1 x 1 images, or the round trip
\* at RoundTripScale
InitAug ==
    /\ entry = "apply_augment"
    /\ pc = "start"
    /\ \/ \E i \in AugInputs, p \in AugPolicies(1) :
            /\ scale = i.scale
            /\ gt0 = Fill(i.gt, 0)
            /\ lq0 = Fill(i.lq, LqBase)
            /\ augs = p.augs
            /\ prob = p.prob
       \/ \E p \in AugPolicies(MaxAugs) \cup OddPolicies :
            /\ scale = 1
            /\ gt0 = Fill(<<2, 1, 1, 1>>, 0)
            /\ lq0 = Fill(<<2, 1, 1, 1>>, LqBase)
            /\ augs = p.augs
            /\ prob = p.prob
       \/ \E k \in {1, Len(DefaultAugs)} :
            /\ scale = RoundTripScale
            /\ gt0 = Fill(<<2, 1, 2 * RoundTripScale, 2 * RoundTripScale>>, 0)
            /\ lq0 = Fill(<<2, 1, 2, 2>>, LqBase)
            /\ augs = <<DefaultAugs[k]>>
            /\ prob = <<1>>
    /\ img_gt = gt0
    /\ img_lq = lq0
    /\ multi_prob \in {0, 1, 2}
    /\ scope = DefaultScope
    /\ x_axis_only = FALSE
    /\ y_axis_only = FALSE
    /\ Locals

NextAug ==
    \/ AugCheck
    \/ AugMatch
    \/ AugCoin
    \/ AugDraw
    \/ AugApplyMulti
    \/ AugSingle
    \/ AugRestore

SpecAug == InitAug /\ [][NextAug]_vars

-----------------------------------------------------------------------------
(* Real numbers of the MS-SSIM loss.  A number is an exact fraction         *)
(* [num, den] in lowest terms with den > 0; NaN, the result of 0 / 0, is    *)
(* [num |-> 0, den |-> 0].  A mean of unequal numbers, a power with a       *)
(* fractional exponent and what is computed from them are kept exactly, as  *)
(* terms [op, ...] over their operands.                                     *)

RECURSIVE Gcd(_, _)
Gcd(a, b) == IF b = 0 THEN a ELSE Gcd(b, a % b)

Abs(a) == IF a < 0 THEN -a ELSE a

\* the fraction n / d in lowest terms, for d > 0
Frac(n, d) == [num |-> n \div Gcd(Abs(n), d), den |-> d \div Gcd(Abs(n), d)]

Zero == Frac(0, 1)
One == Frac(1, 1)
NaN == [num |-> 0, den |-> 0]

IsFrac(a) == DOMAIN a = {"num", "den"}
IsNaN(a) == IsFrac(a) /\ a.den = 0

RAdd(a, b) ==
    IF IsNaN(a) \/ IsNaN(b) THEN NaN
    ELSE LET l == (a.den \div Gcd(a.den, b.den)) * b.den
         IN  Frac(a.num * (l \div a.den) + b.num * (l \div b.den), l)

RNeg(a) == [num |-> -a.num, den |-> a.den]

RSub(a, b) == RAdd(a, RNeg(b))

RMul(a, b) ==
    IF IsNaN(a) \/ IsNaN(b) THEN NaN
    ELSE LET g1 == Gcd(Abs(a.num), b.den)
             g2 == Gcd(Abs(b.num), a.den)
         IN  [num |-> (a.num \div g1) * (b.num \div g2),
              den |-> (a.den \div g2) * (b.den \div g1)]

\* a / b as torch computes it, without an exception: 0 / 0 is nan
RDiv(a, b) ==
    IF IsNaN(a) \/ IsNaN(b) \/ b.num = 0 THEN NaN
    ELSE RMul(a, IF b.num > 0 THEN [num |-> b.den, den |-> b.num]
                 ELSE [num |-> -b.den, den |-> -b.num])

\* the entries of a tensor, as a set
Entries(t) == {At(t, i) : i \in Idx(t.shape)}

\* Tensor.mean(): the common value if the entries are all equal, nan if one
\* of them is nan, and the term "mean of these entries" otherwise
Mean(t) ==
    IF \E v \in Entries(t) : IsNaN(v) THEN NaN
    ELSE IF Cardinality(Entries(t)) = 1 THEN CHOOSE v \in Entries(t) : TRUE
    ELSE [op |-> "mean", of |-> t.px]

\* v ** w for a weight 0 < w < 1: exact for 0 and 1, nan for nan and for a
\* negative base
Pow(v, w) ==
    IF IsFrac(v) /\ (IsNaN(v) \/ v.num < 0) THEN NaN
    ELSE IF v = One \/ v = Zero THEN v
    ELSE [op |-> "pow", base |-> v, exp |-> w]

\* math.prod of a list of numbers
Prod(l) ==
    IF \E k \in 1 .. Len(l) : l[k] = NaN THEN NaN
    ELSE IF \E k \in 1 .. Len(l) : l[k] = Zero THEN Zero
    ELSE IF \A k \in 1 .. Len(l) : l[k] = One THEN One
    ELSE [op |-> "prod", of |-> l]

\* a - b and a * b where b may be a term
Minus(a, b) == IF IsFrac(b) THEN RSub(a, b) ELSE [op |-> "sub", of |-> <<a, b>>]
Times(a, b) == IF IsFrac(b) THEN RMul(a, b) ELSE [op |-> "mul", of |-> <<a, b>>]

-----------------------------------------------------------------------------
(* GaussianFilter2D *)

\* largest window_size an object is constructed with
MaxWindow == 3

\* 1 / exp(-0.5 / sigma ** 2) for the sigma of the model, sqrt(1 / (2 ln 2)):
\* the weight exp(-0.5 * x**2 / sigma2) is then 1 / SigmaDecay ** (x * x)
SigmaDecay == 2

RECURSIVE IntPow(_, _)
IntPow(b, n) == IF n = 0 THEN 1 ELSE b * IntPow(b, n - 1)

RECURSIVE SumTo(_, _)
SumTo(w, n) == IF n = 0 THEN Zero ELSE RAdd(SumTo(w, n - 1), w[n])

\* torch.arange(-(window_size // 2), window_size // 2 + 1), as a sequence
Arange(window_size) ==
    [k \in 1 .. 2 * (window_size \div 2) + 1 |-> k - 1 - window_size \div 2]

\* the normalised 1-d window, or the RuntimeError of reshape when the
\* number of weights is not window_size
_get_gaussian_window1d(window_size) ==
    LET x == Arange(window_size)
        w == [k \in DOMAIN x |-> Frac(1, IntPow(SigmaDecay, x[k] * x[k]))]
    IN  IF Len(x) # window_size
        THEN [raised |-> "RuntimeError", w |-> <<>>]
        ELSE [raised |-> "none",
              w |-> [k \in DOMAIN w |-> RDiv(w[k], SumTo(w, Len(w)))]]

\* the outer product of the 1-d window with itself: k[i][j], 1-based
_get_gaussian_window2d(w) ==
    [i \in DOMAIN w |-> [j \in DOMAIN w |-> RMul(w[i], w[j])]]

\* the attributes of a GaussianFilter2D before __init__ has set any
NoFilter ==
    [window_size |-> -1, padding |-> -1, in_channels |-> 0,
     gaussian_window |-> <<>>, registered |-> FALSE, kernels |-> 0]

\* the padding argument None
None == -1

\* GaussianFilter2D.__init__ without the test of window_size
GaussianFilter2D_init_NoOddCheck(window_size, in_channels, padding) ==
    LET w == _get_gaussian_window1d(window_size)
        self == [NoFilter EXCEPT !.window_size = window_size,
                                 !.in_channels = in_channels,
                                 !.padding = IF padding # None THEN padding
                                             ELSE window_size \div 2,
                                 !.kernels = 1]
    IN  IF w.raised # "none" THEN [raised |-> w.raised, self |-> self]
        ELSE [raised |-> "none",
              self |-> [self EXCEPT
                          !.gaussian_window = _get_gaussian_window2d(w.w),
                          !.registered = TRUE]]

\* GaussianFilter2D.__init__: the exception raised ("none" when it returns)
\* and the attributes of the object afterwards; kernels counts the windows
\* computed
GaussianFilter2D_init(window_size, in_channels, padding) ==
    IF window_size % 2 # 1
    THEN [raised |-> "ValueError",
          self |-> [NoFilter EXCEPT !.window_size = window_size]]
    ELSE LET w == _get_gaussian_window1d(window_size)
             self == [NoFilter EXCEPT !.window_size = window_size,
                                      !.in_channels = in_channels,
                                      !.padding = IF padding # None THEN padding
                                                  ELSE window_size \div 2,
                                      !.kernels = 1]
         IN  IF w.raised # "none" THEN [raised |-> w.raised, self |-> self]
             ELSE [raised |-> "none",
                   self |-> [self EXCEPT
                              !.gaussian_window = _get_gaussian_window2d(w.w),
                              !.registered = TRUE]]

\* whether row h and column w lie inside a tensor of the given shape
Inside(shape, h, w) == 0 <= h /\ h < shape[3] /\ 0 <= w /\ w < shape[4]

\* GaussianFilter2D.forward: F.conv2d of x with the registered window,
\* stride 1, zero padding self.padding and groups = x.shape[1]; every output
\* channel is filtered with the same window
GaussianFilter2D_forward(self, x) ==
    LET ws == self.window_size
        p == self.padding
        oh == x.shape[3] + 2 * p - ws + 1
        ow == x.shape[4] + 2 * p - ws + 1
        groups == x.shape[2]
        Tap(n, c, h, w, k) ==
            LET i == (k - 1) \div ws
                j == (k - 1) % ws
            IN  IF Inside(x.shape, h - p + i, w - p + j)
                THEN RMul(self.gaussian_window[i + 1][j + 1],
                          x.px[n][c][h - p + i][w - p + j])
                ELSE Zero
    IN  IF self.in_channels % groups # 0 \/ oh < 1 \/ ow < 1
        THEN [raised |-> "RuntimeError", t |-> x]
        ELSE [raised |-> "none",
              t |-> Build(<<x.shape[1], self.in_channels, oh, ow>>,
                          LAMBDA n, c, h, w :
                            LET in == c \div (self.in_channels \div groups)
                                S[k \in 0 .. ws * ws] ==
                                    IF k = 0 THEN Zero
                                    ELSE RAdd(S[k - 1], Tap(n, in, h, w, k))
                            IN  S[ws * ws])]

-----------------------------------------------------------------------------
(* mssim_loss *)

\* F.avg_pool2d(t, kernel_size=2, stride=2, padding=[s % 2 for s in
\* t.shape[2:]]): zero padding counts in the average of a window
avg_pool2d(t) ==
    LET ph == t.shape[3] % 2
        pw == t.shape[4] % 2
        oh == (t.shape[3] + 2 * ph - 2) \div 2 + 1
        ow == (t.shape[4] + 2 * pw - 2) \div 2 + 1
        Cell(n, c, h, w) ==
            IF Inside(t.shape, h, w) THEN t.px[n][c][h][w] ELSE Zero
    IN  Build(<<t.shape[1], t.shape[2], oh, ow>>,
              LAMBDA n, c, h, w :
                RDiv(RAdd(RAdd(Cell(n, c, 2 * h - ph, 2 * w - pw),
                               Cell(n, c, 2 * h - ph, 2 * w - pw + 1)),
                          RAdd(Cell(n, c, 2 * h - ph + 1, 2 * w - pw),
                               Cell(n, c, 2 * h - ph + 1, 2 * w - pw + 1))),
                     Frac(4, 1)))

\* elementwise a * b and a - b of equal-shaped tensors
TMul(a, b) ==
    Build(a.shape, LAMBDA n, c, h, w : RMul(a.px[n][c][h][w], b.px[n][c][h][w]))
TSub(a, b) ==
    Build(a.shape, LAMBDA n, c, h, w : RSub(a.px[n][c][h][w], b.px[n][c][h][w]))

\* mssim_loss._ssim with B1 computed with C2 in place of C1
_ssim_B1WithC2(self, x, y) ==
    LET g(t) == GaussianFilter2D_forward(self.gaussian_filter, t)
        mu_x == g(x).t
        mu_y == g(y).t
        sigma2_x == TSub(g(TMul(x, x)).t, TMul(mu_x, mu_x))
        sigma2_y == TSub(g(TMul(y, y)).t, TMul(mu_y, mu_y))
        sigma_xy == TSub(g(TMul(x, y)).t, TMul(mu_x, mu_y))
        Two == Frac(2, 1)
        A1(i) == RAdd(RMul(RMul(Two, At(mu_x, i)), At(mu_y, i)), self.C1)
        A2(i) == RAdd(RMul(Two, At(sigma_xy, i)), self.C2)
        B1(i) == RAdd(RAdd(RMul(At(mu_x, i), At(mu_x, i)),
                           RMul(At(mu_y, i), At(mu_y, i))), self.C2)
        B2(i) == RAdd(RAdd(At(sigma2_x, i), At(sigma2_y, i)), self.C2)
        l1 == Build(mu_x.shape, LAMBDA n, c, h, w :
                      RDiv(A1(<<n, c, h, w>>), B1(<<n, c, h, w>>)))
        cs == Build(mu_x.shape, LAMBDA n, c, h, w :
                      RDiv(A2(<<n, c, h, w>>), B2(<<n, c, h, w>>)))
    IN  IF g(x).raised # "none"
        THEN [raised |-> g(x).raised, l1 |-> x, cs |-> x, ssim |-> x]
        ELSE [raised |-> "none", l1 |-> l1, cs |-> cs, ssim |-> TMul(l1, cs)]

\* mssim_loss._ssim: the exception raised by the filter ("none" when it
\* returns), the luminance term l1, the contrast-structure term cs and
\* ssim = l1 * cs
_ssim(self, x, y) ==
    LET g(t) == GaussianFilter2D_forward(self.gaussian_filter, t)
        mu_x == g(x).t
        mu_y == g(y).t
        sigma2_x == TSub(g(TMul(x, x)).t, TMul(mu_x, mu_x))
        sigma2_y == TSub(g(TMul(y, y)).t, TMul(mu_y, mu_y))
        sigma_xy == TSub(g(TMul(x, y)).t, TMul(mu_x, mu_y))
        Two == Frac(2, 1)
        A1(i) == RAdd(RMul(RMul(Two, At(mu_x, i)), At(mu_y, i)), self.C1)
        A2(i) == RAdd(RMul(Two, At(sigma_xy, i)), self.C2)
        B1(i) == RAdd(RAdd(RMul(At(mu_x, i), At(mu_x, i)),
                           RMul(At(mu_y, i), At(mu_y, i))), self.C1)
        B2(i) == RAdd(RAdd(At(sigma2_x, i), At(sigma2_y, i)), self.C2)
        l1 == Build(mu_x.shape, LAMBDA n, c, h, w :
                      RDiv(A1(<<n, c, h, w>>), B1(<<n, c, h, w>>)))
        cs == Build(mu_x.shape, LAMBDA n, c, h, w :
                      RDiv(A2(<<n, c, h, w>>), B2(<<n, c, h, w>>)))
    IN  IF g(x).raised # "none"
        THEN [raised |-> g(x).raised, l1 |-> x, cs |-> x, ssim |-> x]
        ELSE [raised |-> "none", l1 |-> l1, cs |-> cs, ssim |-> TMul(l1, cs)]

\* the weights of the five scales, in ten-thousandths
MsWeights == <<448, 2856, 3001, 2363, 1333>>

\* the dynamic range L of the pixel values
DynamicRange == 1

\* largest width of an image passed to forward
MaxWidth == 2

\* an attribute not yet assigned, and the place of a tensor not yet passed
Unset == [op |-> "unset"]
NoTensor == [shape |-> <<0, 0, 0, 0>>, px |-> <<>>]

\* the state of an object under construction with the arguments a, and of
\* the forward call made on it
NewObject(a) ==
    [args |-> a, window_size |-> Unset, C1 |-> Unset, C2 |-> Unset,
     loss_weight |-> Unset, has_filter |-> FALSE, gaussian_filter |-> NoFilter,
     x0 |-> NoTensor, y0 |-> NoTensor, x |-> NoTensor, y |-> NoTensor,
     i |-> 0, levels |-> <<>>, ms_components |-> <<>>, msssim |-> Unset,
     out |-> Unset]

\* constructor arguments: K1, K2 and loss_weight matter to mssim_loss only
LossArgs(e) ==
    [window_size : 0 .. MaxWindow, in_channels : {1, 2}, padding : {None, 0},
     K1 : IF e = "mssim_loss" THEN {Zero, Frac(1, 16)} ELSE {Zero},
     K2 : IF e = "mssim_loss" THEN {Zero, Frac(1, 8)} ELSE {Zero},
     loss_weight : IF e = "mssim_loss" THEN {One, Frac(1, 2)} ELSE {One}]

\* shapes (N, C, H, W) of the images passed to forward
LossShapes == {<<1, 1, 1, w>> : w \in 1 .. MaxWidth} \cup {<<1, 2, 1, 1>>}

\* the images of these shapes with pixels 0 and 1
LossImages ==
    UNION {{Build(s, LAMBDA n, c, h, w : f[Lin(s, <<n, c, h, w>>)]) :
                f \in [0 .. s[1] * s[2] * s[3] * s[4] - 1 -> {Zero, One}]} :
           s \in LossShapes}

\* GaussianFilter2D(window_size, in_channels, sigma, padding)
GaussianConstruct ==
    /\ entry = "GaussianFilter2D" /\ pc = "new"
    /\ \E res \in {GaussianFilter2D_init(loss.args.window_size,
                                          loss.args.in_channels,
                                          loss.args.padding)} :
         /\ loss' = [loss EXCEPT !.gaussian_filter = res.self]
         /\ raised' = res.raised
         /\ pc' = IF res.raised = "none" THEN "built" ELSE "raised"
    /\ UNCHANGED <<entry, img_gt, img_lq, gt0, lq0, scale, augs, prob,
                   multi_prob, multi, num_augs, weighted, aug, step, scope,
                   x_axis_only, y_axis_only, applied, last, draws>>

\* GaussianFilter2D.forward(x)
GaussianForward ==
    /\ entry = "GaussianFilter2D" /\ pc = "built"
    /\ \E x \in LossImages :
         \E res \in {GaussianFilter2D_forward(loss.gaussian_filter, x)} :
            /\ loss' = [loss EXCEPT !.x0 = x, !.x = x,
                                    !.out = IF res.raised = "none" THEN res.t
                                            ELSE @]
            /\ raised' = res.raised
            /\ pc' = IF res.raised = "none" THEN "returned" ELSE "raised"
    /\ UNCHANGED <<entry, img_gt, img_lq, gt0, lq0, scale, augs, prob,
                   multi_prob, multi, num_augs, weighted, aug, step, scope,
                   x_axis_only, y_axis_only, applied, last, draws>>

\* mssim_loss.__init__: the attributes are assigned in the order of the
\* source, gaussian_filter last and only if its constructor returns
LossConstruct ==
    /\ entry = "mssim_loss" /\ pc = "new"
    /\ \E res \in {GaussianFilter2D_init(loss.args.window_size,
                                          loss.args.in_channels,
                                          loss.args.padding)} :
         /\ loss' = [loss EXCEPT
                       !.window_size = loss.args.window_size,
                       !.C1 = RMul(RMul(loss.args.K1, Frac(DynamicRange, 1)),
                                   RMul(loss.args.K1, Frac(DynamicRange, 1))),
                       !.C2 = RMul(RMul(loss.args.K2, Frac(DynamicRange, 1)),
                                   RMul(loss.args.K2, Frac(DynamicRange, 1))),
                       !.loss_weight = loss.args.loss_weight,
                       !.has_filter = (res.raised = "none"),
                       !.gaussian_filter = res.self]
         /\ raised' = res.raised
         /\ pc' = IF res.raised = "none" THEN "built" ELSE "raised"
    /\ UNCHANGED <<entry, img_gt, img_lq, gt0, lq0, scale, augs, prob,
                   multi_prob, multi, num_augs, weighted, aug, step, scope,
                   x_axis_only, y_axis_only, applied, last, draws>>

\* mssim_loss.forward(x, y) up to the call of msssim
LossForward ==
    /\ entry = "mssim_loss" /\ pc = "built"
    /\ \E x \in LossImages, y \in LossImages :
         /\ loss' = [loss EXCEPT !.x0 = x, !.y0 = y, !.x = x, !.y = y]
         /\ raised' = IF x.shape # y.shape THEN "AssertionError" ELSE "none"
         /\ pc' = IF x.shape # y.shape THEN "raised" ELSE "msssim"
    /\ UNCHANGED <<entry, img_gt, img_lq, gt0, lq0, scale, augs, prob,
                   multi_prob, multi, num_augs, weighted, aug, step, scope,
                   x_axis_only, y_axis_only, applied, last, draws>>

\* MsssimLevel downsampling x and y after the last level too (mutant)
MsssimLevel_PoolsLast ==
    /\ entry = "mssim_loss" /\ pc = "msssim" /\ loss.i < Len(MsWeights)
    /\ \E res \in {_ssim(loss, loss.x, loss.y)} :
         IF res.raised # "none"
         THEN /\ raised' = res.raised
              /\ pc' = "raised"
              /\ loss' = loss
         ELSE /\ loss' =
                   [loss EXCEPT
                      !.levels = Append(@, [l1 |-> res.l1, cs |-> res.cs]),
                      !.ms_components =
                          Append(@, IF loss.i = 4
                                    THEN Pow(Mean(res.ssim), MsWeights[5])
                                    ELSE Pow(Mean(res.cs),
                                             MsWeights[loss.i + 1])),
                      !.x = avg_pool2d(@),
                      !.y = avg_pool2d(@),
                      !.i = @ + 1]
              /\ UNCHANGED <<raised, pc>>
    /\ UNCHANGED <<entry, img_gt, img_lq, gt0, lq0, scale, augs, prob,
                   multi_prob, multi, num_augs, weighted, aug, step, scope,
                   x_axis_only, y_axis_only, applied, last, draws>>

\* one iteration of the loop of msssim
MsssimLevel ==
    /\ entry = "mssim_loss" /\ pc = "msssim" /\ loss.i < Len(MsWeights)
    /\ \E res \in {_ssim(loss, loss.x, loss.y)} :
         IF res.raised # "none"
         THEN /\ raised' = res.raised
              /\ pc' = "raised"
              /\ loss' = loss
         ELSE /\ loss' =
                   [loss EXCEPT
                      !.levels = Append(@, [l1 |-> res.l1, cs |-> res.cs]),
                      !.ms_components =
                          Append(@, IF loss.i = 4
                                    THEN Pow(Mean(res.ssim), MsWeights[5])
                                    ELSE Pow(Mean(res.cs),
                                             MsWeights[loss.i + 1])),
                      !.x = IF loss.i = 4 THEN @ ELSE avg_pool2d(@),
                      !.y = IF loss.i = 4 THEN @ ELSE avg_pool2d(@),
                      !.i = @ + 1]
              /\ UNCHANGED <<raised, pc>>
    /\ UNCHANGED <<entry, img_gt, img_lq, gt0, lq0, scale, augs, prob,
                   multi_prob, multi, num_augs, weighted, aug, step, scope,
                   x_axis_only, y_axis_only, applied, last, draws>>

\* the return of msssim and of forward
LossReturn ==
    /\ entry = "mssim_loss" /\ pc = "msssim" /\ loss.i = Len(MsWeights)
    /\ loss' = [loss EXCEPT
                  !.msssim = Prod(loss.ms_components),
                  !.out = Times(loss.loss_weight,
                                Minus(One, Prod(loss.ms_components)))]
    /\ pc' = "returned"
    /\ UNCHANGED <<raised, entry, img_gt, img_lq, gt0, lq0, scale, augs, prob,
                   multi_prob, multi, num_augs, weighted, aug, step, scope,
                   x_axis_only, y_axis_only, applied, last, draws>>

\* an object about to be constructed; the variables of the augmentations
\* stay at rest
InitLoss ==
    /\ entry \in {"GaussianFilter2D", "mssim_loss"}
    /\ pc = "new"
    /\ loss \in {NewObject(a) : a \in LossArgs(entry)}
    /\ raised = "none"
    /\ gt0 = NoTensor /\ lq0 = NoTensor
    /\ img_gt = NoTensor /\ img_lq = NoTensor
    /\ scope = DefaultScope
    /\ x_axis_only = FALSE /\ y_axis_only = FALSE
    /\ scale = 1 /\ augs = <<>> /\ prob = <<>> /\ multi_prob = 0
    /\ multi = "unset" /\ num_augs = 0 /\ weighted = <<>> /\ aug = <<>>
    /\ step = 1 /\ applied = <<>> /\ last = NoLast /\ draws = 0

NextLoss ==
    \/ GaussianConstruct
    \/ GaussianForward
    \/ LossConstruct
    \/ LossForward
    \/ MsssimLevel
    \/ LossReturn

SpecLoss == InitLoss /\ [][NextLoss]_vars

-----------------------------------------------------------------------------
(* Claims about the transforms called directly (SpecCall) *)

Transforms == {"mixup", "cutmix", "resizemix", "cutblur"}

\* C2: cutblur returns GT unchanged; the returned LQ equals GT inside the
\* sampled rectangle and the input LQ everywhere outside it.
C2_CutblurFrame ==
    (entry = "cutblur" /\ pc = "done") =>
        /\ img_gt = gt0
        /\ img_lq.shape = lq0.shape
        /\ \A i \in Idx(lq0.shape) :
             At(img_lq, i) =
                IF InSlice(i[3], i[4], last.box.bbx1, last.box.bbx2,
                           last.box.bby1, last.box.bby2)
                THEN At(gt0, i) ELSE At(lq0, i)

\* a cutblur call that returned with a non-empty rectangle
C2_Witness ==
    /\ entry = "cutblur" /\ pc = "done"
    /\ last.box.bbx2 > last.box.bbx1 /\ last.box.bby2 > last.box.bby1
    /\ img_lq # lq0

\* C7: a transform called with tensors of different sizes, and resizemix
\* called with both axis flags, raises ValueError at once: the tensors are
\* as passed in and no random value has been drawn.
C7_RaisesBeforeAnyEffect ==
    (/\ entry \in Transforms
     /\ pc # "call"
     /\ \/ gt0.shape # lq0.shape
        \/ entry = "resizemix" /\ x_axis_only /\ y_axis_only) =>
        /\ pc = "raised"
        /\ raised = "ValueError"
        /\ img_gt = gt0
        /\ img_lq = lq0
        /\ draws = 0

\* resizemix called on equal-shaped tensors with both flags has raised
C7_Witness ==
    /\ entry = "resizemix" /\ x_axis_only /\ y_axis_only
    /\ gt0.shape = lq0.shape
    /\ raised = "ValueError"

\* C10 as claimed: mixup returns lam*gt + (1-lam)*gt[p] and
\* lam*lq + (1-lam)*lq[p].
C10_MixupBlendsOwnBatch ==
    (entry = "mixup" /\ pc = "done") =>
        /\ img_gt = Blend(last.lam, gt0, Permute(gt0, last.perm))
        /\ img_lq = Blend(last.lam, lq0, Permute(lq0, last.perm))

-----------------------------------------------------------------------------
(* Claims about apply_augment (SpecAug) *)

\* number of elements of l equal to x
Count(l, x) == Cardinality({k \in 1 .. Len(l) : l[k] = x})

\* the transform call the policy name stands for (NoCall for "none")
ClaimedCall(name) ==
    IF \E k \in 1 .. Len(Chain) : Chain[k].name = name
    THEN Chain[CHOOSE k \in 1 .. Len(Chain) : Chain[k].name = name].call
    ELSE NoCall

\* C1: with a GT batch of size 1 apply_augment raises ValueError, whatever
\* augs, prob, scale and multi_prob are, and applies no transform.
C1_BatchOneRaises ==
    (entry = "apply_augment" /\ gt0.shape[1] = 1 /\ pc # "start") =>
        /\ pc = "raised"
        /\ raised = "ValueError"
        /\ applied = <<>>
        /\ img_gt = gt0
        /\ img_lq = lq0

\* the batch check itself raised, for a scale above 1 and multi_prob = 1
C1_Witness ==
    /\ entry = "apply_augment" /\ gt0.shape[1] = 1
    /\ Len(augs) = Len(prob) /\ Len(augs) > 0
    /\ scale > 1 /\ multi_prob = 2
    /\ raised = "ValueError"

\* C3 as claimed: in the single-augmentation branch exactly the transform
\* named by the draw is called, with that name's arguments.
C3_SingleAppliesNamed ==
    (entry = "apply_augment" /\ multi = "single" /\ Len(aug) = 1) =>
        applied = IF ClaimedCall(aug[1]) = NoCall THEN <<>>
                  ELSE <<ClaimedCall(aug[1])>>

\* C4: in the multi-augmentation branch every draw moves one entry out of
\* the pool, so the names drawn and the entries left make up the policy;
\* the number of draws is in 2 .. len(augs)-1 when len(augs) > 2 and is
\* len(augs) otherwise; each selected transform is called at most once, and
\* only selected transforms are called.
C4_MultiSubset ==
    (entry = "apply_augment" /\ multi = "multi") =>
        /\ Len(weighted) + Len(aug) = Len(augs)
        /\ \A k \in 1 .. Len(weighted) :
             Count(weighted, weighted[k]) <= Count(Zip(augs, prob), weighted[k])
        /\ \A k \in 1 .. Len(augs) :
             Count(aug, augs[k])
               + Cardinality({j \in 1 .. Len(weighted) : weighted[j][1] = augs[k]})
               = Count(augs, augs[k])
        /\ num_augs \in (IF Len(augs) > 2 THEN 2 .. Len(augs) - 1
                         ELSE {Len(augs)})
        /\ Len(aug) <= num_augs
        /\ (pc \in {"apply", "restore", "done"} => Len(aug) = num_augs)
        /\ \A k \in 1 .. Len(applied) :
             /\ Count(applied, applied[k]) = 1
             /\ \E j \in 1 .. Len(aug) : ClaimedCall(aug[j]) = applied[k]

\* a multi-augmentation call on a three-entry policy that returned after
\* calling two transforms
C4_Witness ==
    /\ entry = "apply_augment" /\ multi = "multi" /\ pc = "done"
    /\ Len(augs) = 3 /\ Len(aug) = 2 /\ Len(applied) = 2

\* C5 as claimed: an augmentation whose weight is 0 is never selected and
\* applied, in either branch.
C5_ZeroWeightNeverApplied ==
    (entry = "apply_augment" /\ Len(augs) = Len(prob)) =>
        \A k \in 1 .. Len(augs) :
            prob[k] = 0 =>
                ~(InList(augs[k], aug) /\ InList(ClaimedCall(augs[k]), applied))

\* C6 as claimed: whenever apply_augment returns, GT and LQ have the shapes
\* they were passed in with.
C6_ShapesPreserved ==
    (entry = "apply_augment" /\ pc = "done") =>
        /\ img_gt.shape = gt0.shape
        /\ img_lq.shape = lq0.shape

-----------------------------------------------------------------------------
(* Claims about the MS-SSIM loss (SpecLoss) *)

\* whether the k-th scale of the running forward call was computed without
\* a 0 / 0 division
LevelDefined(k) ==
    \A v \in Entries(loss.levels[k].l1) \cup Entries(loss.levels[k].cs) :
        ~IsNaN(v)

\* C8: when forward is called with y = x and the computation is defined (no
\* exception, no 0 / 0), the luminance term and the contrast-structure term
\* of _ssim are 1 everywhere at each of the 5 scales, msssim is 1 and
\* forward returns loss_weight * 0.
C8_IdenticalImagesScoreOne ==
    (entry = "mssim_loss" /\ pc \in {"msssim", "returned"}
        /\ loss.x0 = loss.y0) =>
        /\ \A k \in 1 .. Len(loss.levels) :
             LevelDefined(k) =>
                /\ Entries(loss.levels[k].l1) = {One}
                /\ Entries(loss.levels[k].cs) = {One}
        /\ (pc = "returned" /\ \A k \in 1 .. Len(loss.levels) : LevelDefined(k))
             => /\ Len(loss.levels) = Len(MsWeights)
                /\ loss.msssim = One
                /\ loss.out = RMul(loss.loss_weight, Zero)

\* forward(x, x) has returned for an image x with pixels 0 and 1, a window
\* of 3 and a loss_weight other than 1, all 5 scales being defined
C8_Witness ==
    /\ entry = "mssim_loss" /\ pc = "returned"
    /\ loss.x0 = loss.y0
    /\ Entries(loss.x0) = {Zero, One}
    /\ loss.window_size = MaxWindow
    /\ loss.loss_weight # One
    /\ Len(loss.levels) = Len(MsWeights)
    /\ \A k \in 1 .. Len(loss.levels) : LevelDefined(k)
    /\ loss.out = Zero

\* C9: constructing GaussianFilter2D or mssim_loss with an even window_size
\* raises ValueError, and no Gaussian window has been computed or
\* registered.
C9_EvenWindowRaises ==
    (entry \in {"GaussianFilter2D", "mssim_loss"} /\ pc # "new"
        /\ loss.args.window_size % 2 = 0) =>
        /\ pc = "raised"
        /\ raised = "ValueError"
        /\ loss.gaussian_filter.kernels = 0
        /\ ~loss.gaussian_filter.registered
        /\ loss.gaussian_filter.gaussian_window = <<>>
        /\ ~loss.has_filter

\* mssim_loss constructed with window_size 2 has raised ValueError
C9_Witness ==
    /\ entry = "mssim_loss" /\ pc = "raised"
    /\ loss.args.window_size = 2
    /\ raised = "ValueError"

-----------------------------------------------------------------------------
(* Claims about the boxes of resizemix and cutmix (SpecCall) *)

\* C11 as claimed: when resizemix returns, with x_axis_only its box spans the
\* whole other axis (bby1 = 0 and bby2 = H) and with y_axis_only it has
\* bbx1 = 0 and bbx2 = W, W and H being size[2] and size[3] as in
\* rand_bbox_tao.
C11_AxisFlagsHonoured ==
    (entry = "resizemix" /\ pc = "done") =>
        /\ x_axis_only =>
             last.box.bby1 = 0 /\ last.box.bby2 = gt0.shape[4]
        /\ y_axis_only =>
             last.box.bbx1 = 0 /\ last.box.bbx2 = gt0.shape[3]

\* C12: when cutmix returns, the sampled rectangle lies within the image
\* (0 <= bbx1, bbx2 <= size[2] and 0 <= bby1, bby2 <= size[3]); with p the
\* one permutation drawn, the returned GT and LQ equal the input gt[p] and
\* lq[p] at every pixel inside the rectangle and the input gt and lq at
\* every pixel outside it.
C12_CutmixPairConsistent ==
    (entry = "cutmix" /\ pc = "done") =>
        LET b == last.box
            p == last.perm
        IN  /\ 0 <= b.bbx1 /\ b.bbx1 <= gt0.shape[3]
            /\ 0 <= b.bbx2 /\ b.bbx2 <= gt0.shape[3]
            /\ 0 <= b.bby1 /\ b.bby1 <= gt0.shape[4]
            /\ 0 <= b.bby2 /\ b.bby2 <= gt0.shape[4]
            /\ img_gt.shape = gt0.shape
            /\ img_lq.shape = lq0.shape
            /\ \A i \in Idx(gt0.shape) :
                 LET src == IF InSlice(i[3], i[4], b.bbx1, b.bbx2, b.bby1, b.bby2)
                            THEN <<p[i[1]], i[2], i[3], i[4]>> ELSE i
                 IN  /\ At(img_gt, i) = At(gt0, src)
                     /\ At(img_lq, i) = At(lq0, src)

\* cutmix has returned on a batch of two non-square images, having swapped
\* the two images inside a rectangle that is neither empty nor the whole
\* image
C12_Witness ==
    /\ entry = "cutmix" /\ pc = "done"
    /\ gt0.shape[1] = 2 /\ gt0.shape[3] # gt0.shape[4]
    /\ last.perm[0] = 1
    /\ last.box.bbx1 < last.box.bbx2 /\ last.box.bby1 < last.box.bby2
    /\ (last.box.bbx2 - last.box.bbx1) * (last.box.bby2 - last.box.bby1)
         < gt0.shape[3] * gt0.shape[4]
    /\ img_gt # gt0 /\ img_lq # lq0

\* C14 as claimed: once resizemix has sampled its box (equal-shaped tensors
\* of any height and width, at most one axis flag), the target slice
\* img[:, :, bby1:bby2, bbx1:bbx2] is non-empty, lies inside the image and
\* has the spatial shape (bby2 - bby1, bbx2 - bbx1) of the resized patch,
\* and the call raises nothing.
C14_PasteNeverFails ==
    (/\ entry = "resizemix" /\ pc # "call"
     /\ gt0.shape = lq0.shape
     /\ ~(x_axis_only /\ y_axis_only)) =>
        LET b == last.box
            s == SliceShape(gt0, b.bby1, b.bby2, b.bbx1, b.bbx2)
        IN  /\ b.bby1 < b.bby2 /\ b.bbx1 < b.bbx2
            /\ 0 <= b.bby1 /\ b.bby2 <= gt0.shape[3]
            /\ 0 <= b.bbx1 /\ b.bbx2 <= gt0.shape[4]
            /\ s[3] = b.bby2 - b.bby1 /\ s[4] = b.bbx2 - b.bbx1
            /\ raised = "none"

-----------------------------------------------------------------------------
(* Claims about the levels of msssim (SpecLoss) *)

\* what holds of the loop of msssim between its steps: one component per
\* level run, at most 5, and nothing returned before the loop ends
C13_Levels ==
    (entry = "mssim_loss" /\ pc \in {"msssim", "returned"}) =>
        /\ MsWeights = <<448, 2856, 3001, 2363, 1333>>
        /\ loss.i <= 5
        /\ Len(loss.ms_components) = loss.i
        /\ (pc = "msssim" => loss.msssim = Unset /\ loss.out = Unset)
        /\ (pc = "returned" =>
                /\ loss.i = 5
                /\ loss.msssim = Prod(loss.ms_components)
                /\ loss.out = Times(loss.loss_weight,
                                    Minus(One, loss.msssim)))

\* what each step of msssim does: level i < 4 appends mean(cs) ** weight and
\* pools x and y once; level 4 appends mean(ssim) ** weight and leaves x
\* and y as they are; after 5 levels the product is returned
C13_LevelStep ==
    (entry = "mssim_loss" /\ pc = "msssim") =>
        LET s == _ssim(loss, loss.x, loss.y)
        IN  \/ /\ loss.i < 5 /\ s.raised # "none"
               /\ pc' = "raised"
            \/ /\ loss.i < 5 /\ s.raised = "none"
               /\ pc' = "msssim"
               /\ loss'.i = loss.i + 1
               /\ loss'.ms_components =
                     Append(loss.ms_components,
                            Pow(Mean(IF loss.i = 4 THEN s.ssim ELSE s.cs),
                                MsWeights[loss.i + 1]))
               /\ loss'.x = IF loss.i < 4 THEN avg_pool2d(loss.x) ELSE loss.x
               /\ loss'.y = IF loss.i < 4 THEN avg_pool2d(loss.y) ELSE loss.y
            \/ /\ loss.i = 5
               /\ pc' = "returned"
               /\ loss'.ms_components = loss.ms_components
               /\ loss'.x = loss.x /\ loss'.y = loss.y

\* C13: msssim runs exactly 5 levels with the weights (0.0448, 0.2856,
\* 0.3001, 0.2363, 0.1333).  Levels 0 to 3 each contribute mean(cs) raised
\* to the level's weight and are each followed by one factor-2 average
\* pooling of x and of y; level 4 contributes mean(ssim) raised to its
\* weight and is followed by no pooling; msssim returns only after the
\* fifth level, the product of the 5 components, and forward returns
\* loss_weight * (1 - product).
C13_FiveWeightedLevels == [](C13_Levels) /\ [][C13_LevelStep]_vars

\* forward(x, y) has returned for two different images of width 2: 5
\* components, x pooled down to width 1, and a loss other than 0
C13_Witness ==
    /\ entry = "mssim_loss" /\ pc = "returned"
    /\ loss.x0 # loss.y0
    /\ loss.x0.shape[4] = 2 /\ loss.x.shape[4] = 1
    /\ Len(loss.ms_components) = 5
    /\ loss.ms_components[5] # loss.ms_components[4]
    /\ loss.out # Zero

=============================================================================
